---------------------------- MODULE Spec2Model ----------------------------
(***************************************************************************)
(* A model of poetry's term algebra (poetry/mixology/term.py) and of the   *)
(* derivation of install operations (poetry/puzzle/transaction.py).        *)
(*                                                                         *)
(* The specifications share the variables:                                 *)
(*   TermSpec    two terms are drawn, then one method of Term is called;   *)
(*   TxSpec      a Transaction is constructed, then calculate_operations   *)
(*               is called once;                                           *)
(*   CacheSpec   one process runs several solves, each calling the         *)
(*               memoized methods of Term;                                 *)
(*   SolverSpec  the version solver runs on root requirements and the      *)
(*               data of a Provider (SolverFairSpec: with fairness);       *)
(*   ChooserSpec a Chooser picks the link to install a package from        *)
(*               (poetry/installation/chooser.py);                         *)
(*   ConfigSpec  properties are added to and removed from a configuration  *)
(*               file (poetry/config/file_config_source.py);               *)
(*   AddSpec     `poetry add` runs once on a pyproject.toml                *)
(*               (poetry/console/commands/add.py).                         *)
(* The variables of the part that is not exercised stay at an idle value.  *)
(***************************************************************************)
EXTENDS Integers, Sequences, FiniteSets, TLC

VARIABLES
    pc,              \* "ready" before the call, "done" after it
    call,            \* the method that was called ("none" before the call)
    t1, t2,          \* Term: self and other
    ret,             \* what the Term method returned or raised
    current_packages,    \* Transaction._current_packages
    result_packages,     \* Transaction._result_packages: <<package, priority>>
    installed_packages,  \* Transaction._installed_packages
    root_package,        \* Transaction._root_package (NoPackage for None)
    with_uninstalls,     \* argument of calculate_operations
    synchronize,         \* argument of calculate_operations
    operations,          \* the list calculate_operations returned
    provider,            \* the Provider's data and the root requirements
    incompatibilities,   \* the solver's set of incompatibilities
    trail,               \* the partial solution: the assignments in order
    conflict,            \* the incompatibility under conflict resolution
    term_cache,          \* the lru_cache of Term.relation and Term.intersect
    solve,               \* the number of the solve in progress in the process
    choose_for_package,  \* the package given to Chooser.choose_for
    links,               \* what repository.find_links_for_package returns
    chosen,              \* what choose_for returned or raised
    file,                \* FileConfigSource._file as stored on disk
    raised,              \* what add_property / remove_property raised
    pyproject,           \* poetry.file (pyproject.toml) as stored on disk
    argument,            \* AddCommand: the "name" argument and what
                         \* _determine_requirements makes of it
    option,              \* AddCommand: the options of the command line
    installer,           \* the status Installer.run returns
    status               \* what AddCommand.handle returned or raised

vars == <<pc, call, t1, t2, ret, current_packages, result_packages,
          installed_packages, root_package, with_uninstalls, synchronize,
          operations, provider, incompatibilities, trail, conflict,
          term_cache, solve, choose_for_package, links, chosen, file,
          raised, pyproject, argument, option, installer, status>>

termVars == <<t1, t2, ret>>
txVars == <<current_packages, result_packages, installed_packages,
            root_package, with_uninstalls, synchronize, operations>>
solverVars == <<provider, incompatibilities, trail, conflict>>
cacheVars == <<term_cache, solve>>
chooserVars == <<choose_for_package, links, chosen>>
configVars == <<file, raised>>
addVars == <<pyproject, argument, option, installer, status>>
commandVars == <<chooserVars, configVars, addVars>>

(***************************************************************************)
(* Bounds.                                                                 *)
(***************************************************************************)
\* versions are 1..MaxVersion
MaxVersion == 2
\* len(current) + len(result) + len(installed) <= MaxPackages
MaxPackages == 3

Versions == 1 .. MaxVersion

(***************************************************************************)
(* Version constraints: a constraint is the set of versions it allows.     *)
(***************************************************************************)
Constraints == SUBSET Versions

allows_all(c, other) == other \subseteq c

allows_any(c, other) == (c \cap other) # {}

is_empty(c) == c = {}

constraint_intersect(c, other) == c \cap other

constraint_union(c, other) == c \cup other

constraint_difference(c, other) == c \ other

(***************************************************************************)
(* Package identity, shared by Dependency and Package.                     *)
(***************************************************************************)
\* the name, with the extras/features when there are some
complete_name(p) ==
    IF p.features = {} THEN <<p.name>> ELSE <<p.name, p.features>>

\* self.is_same_package_as(other): the source is compared only when self
\* has a source type
is_same_package_as(self, other) ==
    /\ complete_name(other) = complete_name(self)
    /\ (self.source_type # "") =>
          /\ self.source_type = other.source_type
          /\ self.source_reference = other.source_reference

(***************************************************************************)
(* Terms.                                                                  *)
(***************************************************************************)
DependencyNames == {"foo", "bar"}
DependencyFeatures == {{}, {"x"}}
DependencySources == {"", "git"}

Dependencies ==
    [name : DependencyNames, features : DependencyFeatures, is_root : BOOLEAN,
     source_type : DependencySources, source_reference : {""},
     constraint : Constraints]

Term(dependency, is_positive) ==
    [tag |-> "Term", dependency |-> dependency, positive |-> is_positive]

Terms == {Term(d, b) : d \in Dependencies, b \in BOOLEAN}

None == [tag |-> "None"]
ValueError == [tag |-> "ValueError"]
Relation(r) == [tag |-> "SetRelation", val |-> r]
Bool(b) == [tag |-> "bool", val |-> b]

SUBSET_ == "subset"
DISJOINT == "disjoint"
OVERLAPPING == "overlapping"

with_constraint(dependency, constraint) ==
    [dependency EXCEPT !.constraint = constraint]

inverse(self) == Term(self.dependency, ~self.positive)

_compatible_dependency(self, other) ==
    \/ self.dependency.is_root
    \/ other.is_root
    \/ is_same_package_as(other, self.dependency)

_non_empty_term(self, constraint, is_positive) ==
    IF is_empty(constraint)
    THEN None
    ELSE Term(with_constraint(self.dependency, constraint), is_positive)

\* mutant: the (+,+) branch tests the constraints the wrong way round
relation_swapped(self, other) ==
    IF complete_name(self.dependency) # complete_name(other.dependency)
    THEN ValueError
    ELSE LET sc == self.dependency.constraint
             oc == other.dependency.constraint
             ok == _compatible_dependency(self, other.dependency)
         IN  Relation(
             IF other.positive
             THEN IF self.positive
                  THEN IF ~ok THEN DISJOINT
                       ELSE IF allows_all(sc, oc) THEN SUBSET_
                       ELSE IF ~allows_any(sc, oc) THEN DISJOINT
                       ELSE OVERLAPPING
                  ELSE IF ~ok THEN OVERLAPPING
                       ELSE IF allows_all(sc, oc) THEN DISJOINT
                       ELSE OVERLAPPING
             ELSE IF self.positive
                  THEN IF ~ok THEN SUBSET_
                       ELSE IF ~allows_any(oc, sc) THEN SUBSET_
                       ELSE IF allows_all(oc, sc) THEN DISJOINT
                       ELSE OVERLAPPING
                  ELSE IF ~ok THEN OVERLAPPING
                       ELSE IF allows_all(sc, oc) THEN SUBSET_
                       ELSE OVERLAPPING)

\* mutant: the identity check compares the names without the extras
relation_name_only(self, other) ==
    IF self.dependency.name # other.dependency.name
    THEN ValueError
    ELSE LET sc == self.dependency.constraint
             oc == other.dependency.constraint
             ok == _compatible_dependency(self, other.dependency)
         IN  Relation(
             IF other.positive
             THEN IF self.positive
                  THEN IF ~ok THEN DISJOINT
                       ELSE IF allows_all(oc, sc) THEN SUBSET_
                       ELSE IF ~allows_any(sc, oc) THEN DISJOINT
                       ELSE OVERLAPPING
                  ELSE IF ~ok THEN OVERLAPPING
                       ELSE IF allows_all(sc, oc) THEN DISJOINT
                       ELSE OVERLAPPING
             ELSE IF self.positive
                  THEN IF ~ok THEN SUBSET_
                       ELSE IF ~allows_any(oc, sc) THEN SUBSET_
                       ELSE IF allows_all(oc, sc) THEN DISJOINT
                       ELSE OVERLAPPING
                  ELSE IF ~ok THEN OVERLAPPING
                       ELSE IF allows_all(sc, oc) THEN SUBSET_
                       ELSE OVERLAPPING)

\* mutant: only is_same_package_as counts, the root package is no exception
relation_no_root(self, other) ==
    IF complete_name(self.dependency) # complete_name(other.dependency)
    THEN ValueError
    ELSE LET sc == self.dependency.constraint
             oc == other.dependency.constraint
             ok == is_same_package_as(other.dependency, self.dependency)
         IN  Relation(
             IF other.positive
             THEN IF self.positive
                  THEN IF ~ok THEN DISJOINT
                       ELSE IF allows_all(oc, sc) THEN SUBSET_
                       ELSE IF ~allows_any(sc, oc) THEN DISJOINT
                       ELSE OVERLAPPING
                  ELSE IF ~ok THEN OVERLAPPING
                       ELSE IF allows_all(sc, oc) THEN DISJOINT
                       ELSE OVERLAPPING
             ELSE IF self.positive
                  THEN IF ~ok THEN SUBSET_
                       ELSE IF ~allows_any(oc, sc) THEN SUBSET_
                       ELSE IF allows_all(oc, sc) THEN DISJOINT
                       ELSE OVERLAPPING
                  ELSE IF ~ok THEN OVERLAPPING
                       ELSE IF allows_all(sc, oc) THEN SUBSET_
                       ELSE OVERLAPPING)

\* mutant: a positive term is never a subset of a negative one
relation_pos_neg_overlapping(self, other) ==
    IF complete_name(self.dependency) # complete_name(other.dependency)
    THEN ValueError
    ELSE LET sc == self.dependency.constraint
             oc == other.dependency.constraint
             ok == _compatible_dependency(self, other.dependency)
         IN  Relation(
             IF other.positive
             THEN IF self.positive
                  THEN IF ~ok THEN DISJOINT
                       ELSE IF allows_all(oc, sc) THEN SUBSET_
                       ELSE IF ~allows_any(sc, oc) THEN DISJOINT
                       ELSE OVERLAPPING
                  ELSE IF ~ok THEN OVERLAPPING
                       ELSE IF allows_all(sc, oc) THEN DISJOINT
                       ELSE OVERLAPPING
             ELSE IF self.positive
                  THEN IF ~ok THEN SUBSET_
                       ELSE IF ~allows_any(oc, sc) THEN OVERLAPPING
                       ELSE IF allows_all(oc, sc) THEN DISJOINT
                       ELSE OVERLAPPING
                  ELSE IF ~ok THEN OVERLAPPING
                       ELSE IF allows_all(sc, oc) THEN SUBSET_
                       ELSE OVERLAPPING)

\* mutant: the (-,-) branch tests allows_any instead of allows_all
relation_neg_any(self, other) ==
    IF complete_name(self.dependency) # complete_name(other.dependency)
    THEN ValueError
    ELSE LET sc == self.dependency.constraint
             oc == other.dependency.constraint
             ok == _compatible_dependency(self, other.dependency)
         IN  Relation(
             IF other.positive
             THEN IF self.positive
                  THEN IF ~ok THEN DISJOINT
                       ELSE IF allows_all(oc, sc) THEN SUBSET_
                       ELSE IF ~allows_any(sc, oc) THEN DISJOINT
                       ELSE OVERLAPPING
                  ELSE IF ~ok THEN OVERLAPPING
                       ELSE IF allows_all(sc, oc) THEN DISJOINT
                       ELSE OVERLAPPING
             ELSE IF self.positive
                  THEN IF ~ok THEN SUBSET_
                       ELSE IF ~allows_any(oc, sc) THEN SUBSET_
                       ELSE IF allows_all(oc, sc) THEN DISJOINT
                       ELSE OVERLAPPING
                  ELSE IF ~ok THEN OVERLAPPING
                       ELSE IF allows_any(sc, oc) THEN SUBSET_
                       ELSE OVERLAPPING)

relation(self, other) ==
    IF complete_name(self.dependency) # complete_name(other.dependency)
    THEN ValueError
    ELSE LET sc == self.dependency.constraint
             oc == other.dependency.constraint
             ok == _compatible_dependency(self, other.dependency)
         IN  Relation(
             IF other.positive
             THEN IF self.positive
                  THEN IF ~ok THEN DISJOINT
                       ELSE IF allows_all(oc, sc) THEN SUBSET_
                       ELSE IF ~allows_any(sc, oc) THEN DISJOINT
                       ELSE OVERLAPPING
                  ELSE IF ~ok THEN OVERLAPPING
                       ELSE IF allows_all(sc, oc) THEN DISJOINT
                       ELSE OVERLAPPING
             ELSE IF self.positive
                  THEN IF ~ok THEN SUBSET_
                       ELSE IF ~allows_any(oc, sc) THEN SUBSET_
                       ELSE IF allows_all(oc, sc) THEN DISJOINT
                       ELSE OVERLAPPING
                  ELSE IF ~ok THEN OVERLAPPING
                       ELSE IF allows_all(sc, oc) THEN SUBSET_
                       ELSE OVERLAPPING)

\* mutant: opposite signs intersect the constraints instead of subtracting
intersect_no_difference(self, other) ==
    IF complete_name(self.dependency) # complete_name(other.dependency)
    THEN ValueError
    ELSE IF _compatible_dependency(self, other.dependency)
    THEN IF self.positive # other.positive
         THEN LET positive == IF self.positive THEN self ELSE other
                  negative == IF self.positive THEN other ELSE self
              IN  _non_empty_term(self,
                      constraint_intersect(positive.dependency.constraint,
                                           negative.dependency.constraint),
                      TRUE)
         ELSE IF self.positive
         THEN _non_empty_term(self,
                  constraint_intersect(self.dependency.constraint,
                                       other.dependency.constraint), TRUE)
         ELSE _non_empty_term(self,
                  constraint_union(self.dependency.constraint,
                                   other.dependency.constraint), FALSE)
    ELSE IF self.positive # other.positive
    THEN (IF self.positive THEN self ELSE other)
    ELSE None

intersect(self, other) ==
    IF complete_name(self.dependency) # complete_name(other.dependency)
    THEN ValueError
    ELSE IF _compatible_dependency(self, other.dependency)
    THEN IF self.positive # other.positive
         THEN LET positive == IF self.positive THEN self ELSE other
                  negative == IF self.positive THEN other ELSE self
              IN  _non_empty_term(self,
                      constraint_difference(positive.dependency.constraint,
                                            negative.dependency.constraint),
                      TRUE)
         ELSE IF self.positive
         THEN _non_empty_term(self,
                  constraint_intersect(self.dependency.constraint,
                                       other.dependency.constraint), TRUE)
         ELSE _non_empty_term(self,
                  constraint_union(self.dependency.constraint,
                                   other.dependency.constraint), FALSE)
    ELSE IF self.positive # other.positive
    THEN (IF self.positive THEN self ELSE other)
    ELSE None

difference(self, other) == intersect(self, inverse(other))

\* mutant: relation is called without the complete_name test before it
satisfies_no_name_check(self, other) ==
    IF relation(self, other) = ValueError
    THEN ValueError
    ELSE Bool(relation(self, other) = Relation(SUBSET_))

satisfies(self, other) ==
    Bool(/\ complete_name(self.dependency) = complete_name(other.dependency)
         /\ relation(self, other) = Relation(SUBSET_))

(***************************************************************************)
(* functools.lru_cache(maxsize=None) on Term.relation and Term.intersect:  *)
(* one cache per decorated function, created when the class is defined and *)
(* alive as long as the process.  Term defines neither __eq__ nor __hash__,*)
(* so a key is the identity of self and other; an object is identified     *)
(* here by its value and the solve that constructed it.  A call that       *)
(* raises stores nothing.  The field solve of an entry records the solve   *)
(* that populated it.                                                      *)
(***************************************************************************)
cache_entry(fn, self, other, value, s) ==
    [fn |-> fn, self |-> self, other |-> other, value |-> value, solve |-> s]

cache_hit(cache, fn, self, other, s) ==
    \E e \in cache :
        e.fn = fn /\ e.self = self /\ e.other = other /\ e.solve = s

lru_cache(cache, fn, self, other, value, s) ==
    IF value = ValueError \/ cache_hit(cache, fn, self, other, s)
        THEN cache
        ELSE cache \cup {cache_entry(fn, self, other, value, s)}

(***************************************************************************)
(* TermSpec: draw self and other, call one method.                         *)
(***************************************************************************)
NoPackage == [tag |-> "None"]

ChooserIdle ==
    /\ choose_for_package = None
    /\ links = <<>>
    /\ chosen = None

ConfigIdle ==
    /\ file = None
    /\ raised = None

AddIdle ==
    /\ pyproject = None
    /\ argument = <<>>
    /\ option = None
    /\ installer = 0
    /\ status = None

CommandIdle == ChooserIdle /\ ConfigIdle /\ AddIdle

SolverIdle ==
    /\ provider = None
    /\ incompatibilities = {}
    /\ trail = <<>>
    /\ conflict = None

CacheIdle ==
    /\ term_cache = {}
    /\ solve = 0

TxIdle ==
    /\ current_packages = <<>>
    /\ result_packages = <<>>
    /\ installed_packages = <<>>
    /\ root_package = NoPackage
    /\ with_uninstalls = FALSE
    /\ synchronize = FALSE
    /\ operations = <<>>

TermInit ==
    /\ CommandIdle
    /\ pc = "ready"
    /\ call = "none"
    /\ t1 \in Terms
    /\ t2 \in Terms
    /\ ret = None
    /\ term_cache = {}
    /\ solve = 1
    /\ TxIdle
    /\ SolverIdle

CallRelation ==
    /\ pc = "ready"
    /\ call' = "relation"
    /\ ret' = relation(t1, t2)
    /\ term_cache' = lru_cache(term_cache, "relation", t1, t2,
                                relation(t1, t2), solve)
    /\ pc' = "done"
    /\ UNCHANGED <<t1, t2, solve>>
    /\ UNCHANGED txVars
    /\ UNCHANGED solverVars
    /\ UNCHANGED commandVars

CallIntersect ==
    /\ pc = "ready"
    /\ call' = "intersect"
    /\ ret' = intersect(t1, t2)
    /\ term_cache' = lru_cache(term_cache, "intersect", t1, t2,
                                intersect(t1, t2), solve)
    /\ pc' = "done"
    /\ UNCHANGED <<t1, t2, solve>>
    /\ UNCHANGED txVars
    /\ UNCHANGED solverVars
    /\ UNCHANGED commandVars

CallDifference ==
    /\ pc = "ready"
    /\ call' = "difference"
    /\ ret' = difference(t1, t2)
    /\ term_cache' = lru_cache(term_cache, "intersect", t1, inverse(t2),
                                intersect(t1, inverse(t2)), solve)
    /\ pc' = "done"
    /\ UNCHANGED <<t1, t2, solve>>
    /\ UNCHANGED txVars
    /\ UNCHANGED solverVars
    /\ UNCHANGED commandVars

CallSatisfies ==
    /\ pc = "ready"
    /\ call' = "satisfies"
    /\ ret' = satisfies(t1, t2)
    /\ term_cache' =
          IF complete_name(t1.dependency) = complete_name(t2.dependency)
              THEN lru_cache(term_cache, "relation", t1, t2,
                             relation(t1, t2), solve)
              ELSE term_cache
    /\ pc' = "done"
    /\ UNCHANGED <<t1, t2, solve>>
    /\ UNCHANGED txVars
    /\ UNCHANGED solverVars
    /\ UNCHANGED commandVars

TermNext == CallRelation \/ CallIntersect \/ CallDifference \/ CallSatisfies

TermSpec == TermInit /\ [][TermNext]_vars

(***************************************************************************)
(* CacheSpec: one process, several solves.  Each solve constructs its own  *)
(* terms and calls the methods of Term on them; nothing in the code clears *)
(* or recreates the caches when a solve ends.                              *)
(***************************************************************************)
\* the process runs at most MaxSolves solves
MaxSolves == 2

CacheDependency ==
    [name |-> "foo", features |-> {}, is_root |-> FALSE, source_type |-> "",
     source_reference |-> "", constraint |-> {1}]

CacheTerms == {Term(CacheDependency, b) : b \in BOOLEAN}

CacheInit ==
    /\ CommandIdle
    /\ pc = "ready"
    /\ call = "none"
    /\ t1 \in CacheTerms
    /\ t2 \in CacheTerms
    /\ ret = None
    /\ term_cache = {}
    /\ solve = 1
    /\ TxIdle
    /\ SolverIdle

\* the solve in progress goes on to its next call
NextCall ==
    /\ pc = "done"
    /\ pc' = "ready"
    /\ call' = "none"
    /\ t1' \in CacheTerms
    /\ t2' \in CacheTerms
    /\ ret' = None
    /\ UNCHANGED cacheVars
    /\ UNCHANGED txVars
    /\ UNCHANGED solverVars
    /\ UNCHANGED commandVars

\* the solve ends and a later solve starts in the same process
NewSolve ==
    /\ pc = "done"
    /\ solve < MaxSolves
    /\ solve' = solve + 1
    /\ pc' = "ready"
    /\ call' = "none"
    /\ t1' \in CacheTerms
    /\ t2' \in CacheTerms
    /\ ret' = None
    /\ UNCHANGED term_cache
    /\ UNCHANGED txVars
    /\ UNCHANGED solverVars
    /\ UNCHANGED commandVars

CacheNext == TermNext \/ NextCall \/ NewSolve

CacheSpec == CacheInit /\ [][CacheNext]_vars

(***************************************************************************)
(* Packages and operations.                                                *)
(***************************************************************************)
Package(name, version, source_type, source_reference) ==
    [name |-> name, version |-> version, features |-> {},
     source_type |-> source_type, source_reference |-> source_reference]

\* the packages the lists are drawn from
InstalledUniverse ==
    {Package("foo", 1, "", ""), Package("foo", 2, "", ""),
     Package("foo", 1, "legacy", ""), Package("foo", 1, "git", "a"),
     Package("foo", 1, "git", "b"), Package("pip", 1, "", ""),
     Package("root", 1, "", "")}

ResultUniverse ==
    {Package("foo", 1, "", ""), Package("foo", 2, "", ""),
     Package("foo", 1, "legacy", ""), Package("foo", 1, "git", "a"),
     Package("pip", 1, "", "")}

CurrentUniverse ==
    {Package("foo", 1, "", ""), Package("foo", 2, "", ""),
     Package("pip", 1, "", ""), Package("root", 1, "", "")}

RootUniverse == {NoPackage, Package("root", 1, "", "")}

Priorities == {0, 1}

\* the order of str on the names in use
NameRank(name) ==
    CASE name = "foo" -> 1
      [] name = "pip" -> 2
      [] name = "root" -> 3
      [] name = "setuptools" -> 4
      [] name = "wheel" -> 5

\* an operation's priority: a number, or float("inf")
Finite(n) == [inf |-> FALSE, n |-> n]
Infinite == [inf |-> TRUE, n |-> 0]

Install(package, priority) ==
    [kind |-> "install", package |-> package, initial |-> NoPackage,
     priority |-> priority, skipped |-> FALSE, skip_reason |-> ""]

\* Update.package is the target package
Update(initial_package, target_package, priority) ==
    [kind |-> "update", package |-> target_package,
     initial |-> initial_package, priority |-> priority,
     skipped |-> FALSE, skip_reason |-> ""]

\* Uninstall's default priority is float("inf")
Uninstall(package) ==
    [kind |-> "uninstall", package |-> package, initial |-> NoPackage,
     priority |-> Infinite, skipped |-> FALSE, skip_reason |-> ""]

\* Install's default priority is 0
InstallDefault(package) == Install(package, Finite(0))

skip(operation, reason) ==
    [operation EXCEPT !.skipped = TRUE, !.skip_reason = reason]

Range(seq) == {seq[i] : i \in 1 .. Len(seq)}

Names(packages) == {packages[i].name : i \in 1 .. Len(packages)}

(***************************************************************************)
(* Transaction.calculate_operations.                                       *)
(***************************************************************************)
\* the index of the first installed package with this name, 0 if none
first_installed(name, installed) ==
    IF \E i \in 1 .. Len(installed) : installed[i].name = name
    THEN CHOOSE i \in 1 .. Len(installed) :
            /\ installed[i].name = name
            /\ \A j \in 1 .. i - 1 : installed[j].name # name
    ELSE 0

\* mutant: the source is not looked at, only the version
result_operation_version_only(result_package, priority, installed) ==
    LET i == first_installed(result_package.name, installed)
    IN  IF i = 0
        THEN Install(result_package, Finite(priority))
        ELSE IF result_package.version # installed[i].version
        THEN Update(installed[i], result_package, Finite(priority))
        ELSE skip(InstallDefault(result_package), "Already installed")

\* mutant: the last installed package of the name is taken, not the first
result_operation_last_match(result_package, priority, installed) ==
    LET m == {i \in 1 .. Len(installed) :
                 installed[i].name = result_package.name}
        i == IF m = {} THEN 0 ELSE CHOOSE k \in m : \A j \in m : j <= k
    IN  IF i = 0
        THEN Install(result_package, Finite(priority))
        ELSE IF \/ result_package.version # installed[i].version
                \/ /\ (installed[i].source_type # ""
                       \/ result_package.source_type # "legacy")
                   /\ ~is_same_package_as(result_package, installed[i])
        THEN Update(installed[i], result_package, Finite(priority))
        ELSE skip(InstallDefault(result_package), "Already installed")

\* mutant: a package that is not installed is reported as already installed
result_operation_skip_new(result_package, priority, installed) ==
    LET i == first_installed(result_package.name, installed)
    IN  IF i = 0
        THEN skip(Install(result_package, Finite(priority)),
                  "Already installed")
        ELSE IF \/ result_package.version # installed[i].version
                \/ /\ (installed[i].source_type # ""
                       \/ result_package.source_type # "legacy")
                   /\ ~is_same_package_as(result_package, installed[i])
        THEN Update(installed[i], result_package, Finite(priority))
        ELSE skip(InstallDefault(result_package), "Already installed")

\* lines 38-63: the operation of one result package
result_operation(result_package, priority, installed) ==
    LET i == first_installed(result_package.name, installed)
    IN  IF i = 0
        THEN Install(result_package, Finite(priority))
        ELSE IF \/ result_package.version # installed[i].version
                \/ /\ (installed[i].source_type # ""
                       \/ result_package.source_type # "legacy")
                   /\ ~is_same_package_as(result_package, installed[i])
        THEN Update(installed[i], result_package, Finite(priority))
        ELSE skip(InstallDefault(result_package), "Already installed")

\* mutant: the inner loop does not break at the first installed match
result_operations_no_break(result, installed) ==
    LET name(k) == result[k][1].name
        rest(k) == SubSeq(installed, first_installed(name(k), installed) + 1,
                          Len(installed))
        again == SelectSeq([k \in 1 .. Len(result) |-> k],
                     LAMBDA k : /\ first_installed(name(k), installed) # 0
                                /\ first_installed(name(k), rest(k)) # 0)
    IN  [k \in 1 .. Len(result) |->
            result_operation(result[k][1], result[k][2], installed)]
        \o [m \in 1 .. Len(again) |->
               result_operation(result[again[m]][1], result[again[m]][2],
                                rest(again[m]))]

result_operations(result, installed) ==
    [k \in 1 .. Len(result) |->
        result_operation(result[k][1], result[k][2], installed)]

\* one Uninstall(current_package) per installed package of its name
RECURSIVE uninstalls_of(_, _)
uninstalls_of(current_package, installed) ==
    IF installed = <<>> THEN <<>>
    ELSE (IF Head(installed).name = current_package.name
          THEN <<Uninstall(current_package)>> ELSE <<>>)
         \o uninstalls_of(current_package, Tail(installed))

\* mutant: a current package is uninstalled when it IS in the result
RECURSIVE uninstall_operations_found(_, _, _)
uninstall_operations_found(current, result, installed) ==
    IF current = <<>> THEN <<>>
    ELSE LET current_package == Head(current)
             found == \E k \in 1 .. Len(result) :
                         current_package.name = result[k][1].name
         IN  (IF found THEN uninstalls_of(current_package, installed)
              ELSE <<>>)
             \o uninstall_operations_found(Tail(current), result, installed)

\* lines 66-77: the current packages that are not in the result
RECURSIVE uninstall_operations(_, _, _)
uninstall_operations(current, result, installed) ==
    IF current = <<>> THEN <<>>
    ELSE LET current_package == Head(current)
             found == \E k \in 1 .. Len(result) :
                         current_package.name = result[k][1].name
         IN  (IF ~found THEN uninstalls_of(current_package, installed)
              ELSE <<>>)
             \o uninstall_operations(Tail(current), result, installed)

BootstrapNames == {"pip", "setuptools", "wheel"}

\* mutant: an installed package named in the result is kept
synchronize_operations_keep_result(current, result, installed, root) ==
    LET current_package_names == Names(current)
        preserved_package_names == BootstrapNames \ current_package_names
        result_names == {result[k][1].name : k \in 1 .. Len(result)}
        keep(p) == \/ (root # NoPackage /\ p.name = root.name)
                   \/ p.name \in preserved_package_names
                   \/ p.name \in result_names
                   \/ p.name \in current_package_names
        removed == SelectSeq(installed, LAMBDA p : ~keep(p))
    IN  [k \in 1 .. Len(removed) |-> Uninstall(removed[k])]

\* mutant: pip, setuptools and wheel are not preserved
synchronize_operations_no_preserve(current, result, installed, root) ==
    LET current_package_names == Names(current)
        keep(p) == \/ (root # NoPackage /\ p.name = root.name)
                   \/ p.name \in current_package_names
        removed == SelectSeq(installed, LAMBDA p : ~keep(p))
    IN  [k \in 1 .. Len(removed) |-> Uninstall(removed[k])]

\* mutant: the root package is not skipped
synchronize_operations_no_root(current, result, installed, root) ==
    LET current_package_names == Names(current)
        preserved_package_names == BootstrapNames \ current_package_names
        keep(p) == \/ p.name \in preserved_package_names
                   \/ p.name \in current_package_names
        removed == SelectSeq(installed, LAMBDA p : ~keep(p))
    IN  [k \in 1 .. Len(removed) |-> Uninstall(removed[k])]

\* lines 79-103: with synchronize, the installed packages that are not
\* current, but for the root package and the preserved bootstrap packages
synchronize_operations(current, result, installed, root) ==
    LET current_package_names == Names(current)
        preserved_package_names == BootstrapNames \ current_package_names
        keep(p) == \/ (root # NoPackage /\ p.name = root.name)
                   \/ p.name \in preserved_package_names
                   \/ p.name \in current_package_names
        removed == SelectSeq(installed, LAMBDA p : ~keep(p))
    IN  [k \in 1 .. Len(removed) |-> Uninstall(removed[k])]

\* mutant: the key is o.priority, not -o.priority
priority_less(a, b) ==
    \/ ~a.priority.inf /\ b.priority.inf
    \/ ~a.priority.inf /\ ~b.priority.inf /\ a.priority.n < b.priority.n

\* -o.priority of a is less than -o.priority of b
neg_priority_less(a, b) ==
    \/ a.priority.inf /\ ~b.priority.inf
    \/ ~a.priority.inf /\ ~b.priority.inf /\ a.priority.n > b.priority.n

\* the key (-priority, name, version) of a is less than that of b
key_less(a, b) ==
    \/ neg_priority_less(a, b)
    \/ /\ ~neg_priority_less(b, a)
       /\ \/ NameRank(a.package.name) < NameRank(b.package.name)
          \/ /\ a.package.name = b.package.name
             /\ a.package.version < b.package.version

\* x put after the elements whose key is not greater (a stable sort)
RECURSIVE insert_sorted(_, _)
insert_sorted(sorted_ops, x) ==
    IF sorted_ops = <<>> THEN <<x>>
    ELSE IF key_less(x, Head(sorted_ops)) THEN <<x>> \o sorted_ops
    ELSE <<Head(sorted_ops)>> \o insert_sorted(Tail(sorted_ops), x)

RECURSIVE sorted_from(_, _)
sorted_from(ops, acc) ==
    IF ops = <<>> THEN acc
    ELSE sorted_from(Tail(ops), insert_sorted(acc, Head(ops)))

\* lines 105-112: sorted(operations, key=(-priority, name, version))
sorted(ops) == sorted_from(ops, <<>>)

\* mutant: the synchronize block is not nested under with_uninstalls
calculate_operations_unnested(current, result, installed, root, uninstalls, sync) ==
    sorted(result_operations(result, installed)
           \o (IF uninstalls
               THEN uninstall_operations(current, result, installed)
               ELSE <<>>)
           \o (IF sync
               THEN synchronize_operations(current, result, installed, root)
               ELSE <<>>))

calculate_operations(current, result, installed, root, uninstalls, sync) ==
    sorted(result_operations(result, installed)
           \o (IF uninstalls
               THEN uninstall_operations(current, result, installed)
                    \o (IF sync
                        THEN synchronize_operations(current, result,
                                                    installed, root)
                        ELSE <<>>)
               ELSE <<>>))

(***************************************************************************)
(* TxSpec: construct a Transaction, call calculate_operations once.        *)
(***************************************************************************)
TermIdle ==
    /\ t1 = None
    /\ t2 = None
    /\ ret = None

\* how MaxPackages packages at most are split over the three lists
Splits ==
    {s \in [c : 0 .. MaxPackages, r : 0 .. MaxPackages, i : 0 .. MaxPackages] :
        s.c + s.r + s.i <= MaxPackages}

TxInit ==
    /\ CommandIdle
    /\ pc = "ready"
    /\ call = "none"
    /\ TermIdle
    /\ \E s \in Splits :
          /\ current_packages \in [1 .. s.c -> CurrentUniverse]
          /\ result_packages \in [1 .. s.r -> ResultUniverse \X Priorities]
          /\ installed_packages \in [1 .. s.i -> InstalledUniverse]
    /\ root_package \in RootUniverse
    /\ with_uninstalls \in BOOLEAN
    /\ synchronize \in BOOLEAN
    /\ operations = <<>>
    /\ SolverIdle
    /\ CacheIdle

CalculateOperations ==
    /\ pc = "ready"
    /\ call' = "calculate_operations"
    /\ operations' = calculate_operations(current_packages, result_packages,
                          installed_packages, root_package, with_uninstalls,
                          synchronize)
    /\ pc' = "done"
    /\ UNCHANGED <<current_packages, result_packages, installed_packages,
                   root_package, with_uninstalls, synchronize>>
    /\ UNCHANGED termVars
    /\ UNCHANGED solverVars
    /\ UNCHANGED commandVars
    /\ UNCHANGED cacheVars

TxNext == CalculateOperations

TxSpec == TxInit /\ [][TxNext]_vars

(***************************************************************************)
(* SolverSpec: the version solver (spec sections 4.2 and 4.3).  Its terms  *)
(* are Terms of the term algebra above, so that relation, intersect,       *)
(* difference and satisfies decide what the solver does.                   *)
(***************************************************************************)
SolverPackages == {"a", "b"}
SolverVersions == {1, 2}
SolverConstraints == (SUBSET SolverVersions) \ {{}}

\* package selection breaks ties by package name
PackageOrder == <<"a", "b">>
PackageRank(name) == CHOOSE i \in DOMAIN PackageOrder : PackageOrder[i] = name

SolverDependency(name, constraint) ==
    [name |-> name, features |-> {}, is_root |-> FALSE, source_type |-> "",
     source_reference |-> "", constraint |-> constraint]

other_package(name) == CHOOSE q \in SolverPackages : q # name

\* a requirement on a package: none (the empty constraint stands for it) or
\* one dependency
requirement(name, constraint) ==
    IF constraint = {} THEN {} ELSE {SolverDependency(name, constraint)}

\* the Provider's data: the root requirements, the versions each package is
\* offered in, and the requirement of each package version (none, or one
\* version of the other package)
Providers ==
    {[root |-> UNION {requirement(p, r[p]) : p \in SolverPackages},
      versions |-> vs,
      requires |-> [k \in SolverPackages \X SolverVersions |->
                       requirement(other_package(k[1]), rq[k])]] :
        r \in [SolverPackages -> SUBSET SolverVersions]
                 \ {[p \in SolverPackages |-> {}]},
        vs \in {f \in [SolverPackages -> SolverConstraints] :
                   f["a"] = SolverVersions /\ 1 \in f["b"]},
        rq \in [SolverPackages \X SolverVersions ->
                   {c \in SUBSET SolverVersions : Cardinality(c) <= 1}]}

Unassigned == [tag |-> "Unassigned"]

\* a term no version satisfies
empty_term(name) == Term(SolverDependency(name, {}), TRUE)

term_names(terms) == {t.dependency.name : t \in terms}

merge(a, b) ==
    IF a = Unassigned THEN b
    ELSE LET r == intersect(a, b)
         IN  IF r = None \/ r = ValueError
                 THEN empty_term(a.dependency.name)
                 ELSE r

RECURSIVE merge_all(_, _)
merge_all(acc, terms) ==
    IF terms = {} THEN acc
    ELSE LET t == CHOOSE x \in terms : TRUE
         IN  merge_all(merge(acc, t), terms \ {t})

\* the terms of an incompatibility: terms about one package are merged
coalesce(terms) ==
    {merge_all(Unassigned, {t \in terms : t.dependency.name = n}) :
        n \in term_names(terms)}

Incompatibility(terms, cause) == [terms |-> coalesce(terms), cause |-> cause]

\* an assignment of the trail; total is what the trail says about the
\* package once the assignment is made (the memoized intersection)
Assignment(term, decision_level, is_decision, cause, total) ==
    [term |-> term, decision_level |-> decision_level,
     decision |-> is_decision, cause |-> cause, total |-> total]

Max(S) == IF S = {} THEN 0 ELSE CHOOSE x \in S : \A y \in S : y <= x

\* what the first i assignments say about the package
accumulate(assignments, name, i) ==
    LET about == {j \in 1 .. i : assignments[j].term.dependency.name = name}
    IN  IF about = {} THEN Unassigned ELSE assignments[Max(about)].total

accumulated(assignments, name) == accumulate(assignments, name, Len(assignments))

assign(assignments, term, decision_level, is_decision, cause) ==
    Append(assignments,
           Assignment(term, decision_level, is_decision, cause,
                      merge(accumulated(assignments, term.dependency.name),
                            term)))

decisions(assignments) ==
    {i \in DOMAIN assignments : assignments[i].decision}

decision_level(assignments) == Cardinality(decisions(assignments))

\* whether the relation of the partial solution to the term is r; without
\* an assignment about the package the relation is OVERLAPPING
solution_relation_is(assignments, term, r) ==
    \E acc \in {accumulated(assignments, term.dependency.name)} :
        IF acc = Unassigned THEN r = OVERLAPPING
        ELSE relation(acc, term) = Relation(r)

solution_satisfies(assignments, term) ==
    solution_relation_is(assignments, term, SUBSET_)

\* the index of the first assignment from which on the term is satisfied
satisfier(assignments, term) ==
    LET found == {i \in DOMAIN assignments :
                     \E acc \in {accumulate(assignments,
                                            term.dependency.name, i)} :
                         /\ acc # Unassigned
                         /\ satisfies(acc, term) = Bool(TRUE)}
    IN  IF found = {} THEN Len(assignments)
        ELSE CHOOSE i \in found : \A j \in found : i <= j

disjoint_terms(assignments, incompatibility) ==
    {t \in incompatibility.terms :
        solution_relation_is(assignments, t, DISJOINT)}

overlapping_terms(assignments, incompatibility) ==
    {t \in incompatibility.terms :
        solution_relation_is(assignments, t, OVERLAPPING)}

\* every term is satisfied: a conflict
is_conflict(assignments, incompatibility) ==
    /\ disjoint_terms(assignments, incompatibility) = {}
    /\ overlapping_terms(assignments, incompatibility) = {}

\* every term but one is satisfied, and that one is not refuted
is_unit(assignments, incompatibility) ==
    /\ disjoint_terms(assignments, incompatibility) = {}
    /\ Cardinality(overlapping_terms(assignments, incompatibility)) = 1

\* the negation of the unsatisfied term becomes a derivation
derive(assignments, incompatibility, unsatisfied) ==
    assign(assignments, inverse(unsatisfied), decision_level(assignments),
           FALSE, incompatibility)

backtrack_keep_derivations(assignments, level) ==
    LET keep == {i \in DOMAIN assignments :
                    \/ assignments[i].decision_level <= level
                    \/ ~assignments[i].decision}
        nth(k) == CHOOSE i \in keep : Cardinality({j \in keep : j <= i}) = k
    IN  [k \in 1 .. Cardinality(keep) |-> assignments[nth(k)]]

\* drop every assignment made after the decision level
backtrack(assignments, level) ==
    LET keep == {i \in DOMAIN assignments :
                    assignments[i].decision_level <= level}
    IN  SubSeq(assignments, 1, Cardinality(keep))

learn_nothing(known, incompatibility) == known

add_incompatibility(known, incompatibility) == known \cup {incompatibility}

\* packages with a positive accumulated term and no decision
unsatisfied_packages(assignments) ==
    {p \in SolverPackages :
        /\ accumulated(assignments, p) # Unassigned
        /\ accumulated(assignments, p).positive
        /\ \A i \in decisions(assignments) :
               assignments[i].term.dependency.name # p}

candidates(prov, assignments, name) ==
    prov.versions[name] \cap accumulated(assignments, name).dependency.constraint

\* fewest candidate versions first, ties broken by package name
choose_package(prov, assignments) ==
    CHOOSE p \in unsatisfied_packages(assignments) :
        \A q \in unsatisfied_packages(assignments) :
            LET np == Cardinality(candidates(prov, assignments, p))
                nq == Cardinality(candidates(prov, assignments, q))
            IN  np < nq \/ (np = nq /\ PackageRank(p) <= PackageRank(q))

best_version(versions) == CHOOSE v \in versions : \A w \in versions : w <= v

\* mutant: the requirements of the chosen version are ignored
incompatibilities_for_none(prov, name, version) == {}

incompatibilities_for(prov, name, version) ==
    {Incompatibility({Term(SolverDependency(name, {version}), TRUE),
                      Term(d, FALSE)}, "dependency") :
        d \in prov.requires[<<name, version>>]}

\* conflict resolution: the term of the conflict that was satisfied last
most_recent_term(assignments, incompatibility) ==
    CHOOSE t \in incompatibility.terms :
        \A u \in incompatibility.terms :
            satisfier(assignments, u) <= satisfier(assignments, t)

\* the level below which the rest of the conflict holds; difference is what
\* the most recent satisfier leaves of the most recent term (or None)
previous_satisfier_level(assignments, incompatibility, recent, diff) ==
    Max({assignments[satisfier(assignments, u)].decision_level :
            u \in incompatibility.terms \ {recent}}
        \cup (IF diff = None THEN {}
              ELSE {assignments[satisfier(assignments, inverse(diff))]
                        .decision_level}))

resolvent(incompatibility, recent, recent_satisfier, diff) ==
    Incompatibility(
        (incompatibility.terms \ {recent})
        \cup {t \in recent_satisfier.cause.terms :
                 t.dependency.name # recent_satisfier.term.dependency.name}
        \cup (IF diff = None THEN {} ELSE {inverse(diff)}),
        "conflict")

SolverInit ==
    /\ CommandIdle
    /\ pc = "propagate"
    /\ call = "solve"
    /\ TermIdle
    /\ TxIdle
    /\ CacheIdle
    /\ provider \in Providers
    /\ incompatibilities =
          {Incompatibility({Term(d, FALSE)}, "root") : d \in provider.root}
    /\ trail = <<>>
    /\ conflict = None

SolverFrame ==
    /\ UNCHANGED <<call, provider>>
    /\ UNCHANGED termVars
    /\ UNCHANGED txVars
    /\ UNCHANGED cacheVars
    /\ UNCHANGED commandVars

\* unit propagation finds an incompatibility with every term satisfied
FindConflict ==
    /\ pc = "propagate"
    /\ \E i \in incompatibilities :
          /\ is_conflict(trail, i)
          /\ conflict' = i
    /\ pc' = "conflict"
    /\ UNCHANGED <<incompatibilities, trail>>
    /\ SolverFrame

\* unit propagation derives the negation of the one unsatisfied term
Derive ==
    /\ pc = "propagate"
    /\ \A i \in incompatibilities : ~is_conflict(trail, i)
    /\ \E i \in incompatibilities :
          /\ is_unit(trail, i)
          /\ \E t \in overlapping_terms(trail, i) :
                trail' = derive(trail, i, t)
    /\ UNCHANGED <<pc, incompatibilities, conflict>>
    /\ SolverFrame

\* unit propagation has reached a fixed point without a conflict
EndPropagation ==
    /\ pc = "propagate"
    /\ \A i \in incompatibilities :
          ~is_conflict(trail, i) /\ ~is_unit(trail, i)
    /\ pc' = "decide"
    /\ UNCHANGED <<incompatibilities, trail, conflict>>
    /\ SolverFrame

\* decision making: no version of the chosen package is a candidate
NoVersions ==
    /\ pc = "decide"
    /\ unsatisfied_packages(trail) # {}
    /\ \E p \in {choose_package(provider, trail)} :
          /\ candidates(provider, trail, p) = {}
          /\ incompatibilities' =
                add_incompatibility(incompatibilities,
                    Incompatibility({Term(accumulated(trail, p).dependency,
                                          TRUE)}, "no_versions"))
    /\ pc' = "propagate"
    /\ UNCHANGED <<trail, conflict>>
    /\ SolverFrame

\* decision making: the best candidate version of the chosen package; its
\* requirements become incompatibilities, and the version is decided unless
\* one of them is already violated by it
DecideVersion ==
    /\ pc = "decide"
    /\ unsatisfied_packages(trail) # {}
    /\ \E p \in {choose_package(provider, trail)} :
          /\ candidates(provider, trail, p) # {}
          /\ \E v \in {best_version(candidates(provider, trail, p))} :
             \E new \in {incompatibilities_for(provider, p, v)} :
                /\ incompatibilities' = incompatibilities \cup new
                /\ trail' =
                      IF \E i \in new : \A t \in i.terms :
                             \/ t.dependency.name = p
                             \/ solution_satisfies(trail, t)
                          THEN trail
                          ELSE assign(trail,
                                      Term(SolverDependency(p, {v}), TRUE),
                                      decision_level(trail) + 1, TRUE, None)
    /\ pc' = "propagate"
    /\ UNCHANGED conflict
    /\ SolverFrame

\* no undecided package remains
Success ==
    /\ pc = "decide"
    /\ unsatisfied_packages(trail) = {}
    /\ pc' = "success"
    /\ UNCHANGED <<incompatibilities, trail, conflict>>
    /\ SolverFrame

\* conflict resolution has reduced the conflict to no term at all
Failure ==
    /\ pc = "conflict"
    /\ conflict.terms = {}
    /\ pc' = "failure"
    /\ UNCHANGED <<incompatibilities, trail, conflict>>
    /\ SolverFrame

\* the conflict holds below the level of its most recent satisfier (or that
\* satisfier is a decision): learn it and backtrack
Backtrack ==
    /\ pc = "conflict"
    /\ conflict.terms # {}
    /\ \E recent \in {most_recent_term(trail, conflict)} :
       \E recent_satisfier \in {trail[satisfier(trail, recent)]} :
       \E diff \in {difference(recent_satisfier.term, recent)} :
       \E level \in {previous_satisfier_level(trail, conflict, recent, diff)} :
          /\ \/ level < recent_satisfier.decision_level
             \/ recent_satisfier.decision
          /\ trail' = backtrack(trail, level)
    /\ incompatibilities' = add_incompatibility(incompatibilities, conflict)
    /\ pc' = "learned"
    /\ UNCHANGED conflict
    /\ SolverFrame

\* otherwise resolve the conflict with the cause of its most recent satisfier
Resolve ==
    /\ pc = "conflict"
    /\ conflict.terms # {}
    /\ \E recent \in {most_recent_term(trail, conflict)} :
       \E recent_satisfier \in {trail[satisfier(trail, recent)]} :
       \E diff \in {difference(recent_satisfier.term, recent)} :
       \E level \in {previous_satisfier_level(trail, conflict, recent, diff)} :
          /\ level >= recent_satisfier.decision_level
          /\ ~recent_satisfier.decision
          /\ conflict' = resolvent(conflict, recent, recent_satisfier, diff)
    /\ UNCHANGED <<pc, incompatibilities, trail>>
    /\ SolverFrame

\* after the backtrack the learned incompatibility is propagated at once
DeriveLearned ==
    /\ pc = "learned"
    /\ \E unsatisfied \in {overlapping_terms(trail, conflict)} :
          trail' =
              IF /\ disjoint_terms(trail, conflict) = {}
                 /\ Cardinality(unsatisfied) = 1
                  THEN derive(trail, conflict, CHOOSE t \in unsatisfied : TRUE)
                  ELSE trail
    /\ conflict' = None
    /\ pc' = "propagate"
    /\ UNCHANGED incompatibilities
    /\ SolverFrame

SolverNext ==
    \/ FindConflict
    \/ Derive
    \/ EndPropagation
    \/ NoVersions
    \/ DecideVersion
    \/ Success
    \/ Failure
    \/ Backtrack
    \/ Resolve
    \/ DeriveLearned

SolverSpec == SolverInit /\ [][SolverNext]_vars

\* the solver's loop is not suspended for ever while it has a step to take
SolverFairSpec == SolverSpec /\ WF_vars(SolverNext)

(***************************************************************************)
(* Properties of the term algebra (checked under TermSpec).                *)
(***************************************************************************)
\* the versions a term allows
Allowed(t) ==
    IF t.positive THEN t.dependency.constraint
    ELSE Versions \ t.dependency.constraint

\* same complete name and same source, whichever side is asked
SamePackage(a, b) ==
    /\ is_same_package_as(a.dependency, b.dependency)
    /\ is_same_package_as(b.dependency, a.dependency)

SameCompleteName(a, b) ==
    complete_name(a.dependency) = complete_name(b.dependency)

\* the sign-pair table of Term.relation, on the sets of versions
TableRelation(self, other) ==
    LET sc == self.dependency.constraint
        oc == other.dependency.constraint
    IN  CASE self.positive /\ other.positive ->
               IF sc \subseteq oc THEN SUBSET_
               ELSE IF sc \cap oc = {} THEN DISJOINT ELSE OVERLAPPING
          [] ~self.positive /\ other.positive ->
               IF oc \subseteq sc THEN DISJOINT ELSE OVERLAPPING
          [] self.positive /\ ~other.positive ->
               IF sc \cap oc = {} THEN SUBSET_
               ELSE IF sc \subseteq oc THEN DISJOINT ELSE OVERLAPPING
          [] OTHER ->
               IF oc \subseteq sc THEN SUBSET_ ELSE OVERLAPPING

\* a returned term (or None) stands for exactly the versions in `both`
RepresentsExactly(r, both) ==
    IF both = {} THEN r = None
    ELSE r.tag = "Term" /\ Allowed(r) = both

\* C1: for two terms about the same package, relation returns what the
\* sign-pair table gives, for each of the four sign pairs.
C1_RelationFollowsTable ==
    (call = "relation" /\ SamePackage(t1, t2))
        => ret = Relation(TableRelation(t1, t2))

C1_Witness ==
    /\ call = "relation"
    /\ SamePackage(t1, t2)
    /\ t1.positive /\ ~t2.positive
    /\ t1.dependency.constraint = {1}
    /\ t2.dependency.constraint = Versions
    /\ ret = Relation(DISJOINT)

\* C2: for two terms about the same package, intersect returns None when
\* no version satisfies both terms and otherwise a term that allows exactly
\* the versions satisfying both.
C2_IntersectExact ==
    (call = "intersect" /\ SamePackage(t1, t2))
        => RepresentsExactly(ret, Allowed(t1) \cap Allowed(t2))

\* C3: a term intersected with its inverse is None, for either sign and
\* any constraint.
C3_IntersectInverseIsNone ==
    (call = "intersect" /\ t2 = inverse(t1)) => ret = None

C3_Witness ==
    /\ call = "intersect"
    /\ t2 = inverse(t1)
    /\ ~t1.positive
    /\ t1.dependency.constraint = {1}
    /\ ret = None

\* C4: relation and intersect on two terms with different complete names,
\* neither about the root package, raise ValueError.
C4_IdentityMismatchRaises ==
    (/\ call \in {"relation", "intersect"}
     /\ ~SameCompleteName(t1, t2)
     /\ ~t1.dependency.is_root
     /\ ~t2.dependency.is_root)
        => ret = ValueError

C4_Witness ==
    /\ call = "relation"
    /\ t1.dependency.name = t2.dependency.name
    /\ t1.dependency.features # t2.dependency.features
    /\ ~t1.dependency.is_root
    /\ ~t2.dependency.is_root
    /\ ret = ValueError

\* C5 as stated: relation and intersect between a root-package term and a
\* term about another package never raise the identity-mismatch error.
C5_RootNeverRaises ==
    (/\ call \in {"relation", "intersect"}
     /\ (t1.dependency.is_root \/ t2.dependency.is_root)
     /\ ~SameCompleteName(t1, t2))
        => ret # ValueError

\* C5 amended: when one of two terms with the same complete name is about
\* the root package, relation and intersect do not raise and treat the two
\* dependencies as compatible whatever their sources: relation returns what
\* the sign-pair table gives, and intersect of terms that are not both
\* negative returns exactly the versions both allow.
C5_RootCompatibleSameName ==
    (/\ call \in {"relation", "intersect"}
     /\ (t1.dependency.is_root \/ t2.dependency.is_root)
     /\ SameCompleteName(t1, t2))
        => /\ ret # ValueError
           /\ call = "relation" => ret = Relation(TableRelation(t1, t2))
           /\ (call = "intersect" /\ (t1.positive \/ t2.positive))
                 => RepresentsExactly(ret, Allowed(t1) \cap Allowed(t2))

C5_Witness ==
    /\ call = "relation"
    /\ t1.dependency.is_root
    /\ ~t2.dependency.is_root
    /\ SameCompleteName(t1, t2)
    /\ ~is_same_package_as(t2.dependency, t1.dependency)
    /\ t1.positive /\ t2.positive
    /\ ret = Relation(SUBSET_)


(***************************************************************************)
(* Properties of calculate_operations (checked under TxSpec).              *)
(***************************************************************************)
Calculated == pc = "done" /\ call = "calculate_operations"

Ops == Range(operations)

ResultNames == {result_packages[k][1].name : k \in 1 .. Len(result_packages)}

\* installed_packages[j] is the first installed package of its name
FirstOfName(j) ==
    \A h \in 1 .. j - 1 :
        installed_packages[h].name # installed_packages[j].name

SourceDiffers(p, q) ==
    \/ p.source_type # q.source_type
    \/ p.source_reference # q.source_reference

HasUpdate(initial_package, target_package) ==
    \E o \in Ops : /\ o.kind = "update"
                   /\ o.initial = initial_package
                   /\ o.package = target_package

HasUpdateTo(target_package) ==
    \E o \in Ops : o.kind = "update" /\ o.package = target_package

HasInstall(package, skipped) ==
    \E o \in Ops : /\ o.kind = "install"
                   /\ o.package = package
                   /\ o.skipped = skipped
                   /\ skipped => o.skip_reason = "Already installed"

HasUninstall(package) ==
    \E o \in Ops : o.kind = "uninstall" /\ o.package = package

\* C6 as stated: a result package with an installed package of its name gets
\* an Update from that installed package whenever the versions differ or the
\* source type or reference differs.
C6_UpdateOnAnyDifference ==
    Calculated =>
        \A k \in 1 .. Len(result_packages) :
        \A j \in 1 .. Len(installed_packages) :
            LET rp == result_packages[k][1]
                ip == installed_packages[j]
            IN  (/\ rp.name = ip.name
                 /\ (rp.version # ip.version \/ SourceDiffers(rp, ip)))
                    => HasUpdate(ip, rp)

\* C6 amended: the Update is from the FIRST installed package of the name,
\* and it is emitted whenever the versions differ, or, at the same version,
\* whenever the result package is not the same package as the installed one
\* (is_same_package_as) and the installed package has a source type or the
\* result package's source type is not "legacy".
C6_UpdateFromFirstMatch ==
    Calculated =>
        \A k \in 1 .. Len(result_packages) :
        \A j \in 1 .. Len(installed_packages) :
            LET rp == result_packages[k][1]
                ip == installed_packages[j]
            IN  (/\ rp.name = ip.name
                 /\ FirstOfName(j)
                 /\ \/ rp.version # ip.version
                    \/ /\ (ip.source_type # "" \/ rp.source_type # "legacy")
                       /\ ~is_same_package_as(rp, ip))
                    => HasUpdate(ip, rp)

C6_Witness ==
    /\ Calculated
    /\ installed_packages = <<Package("foo", 1, "git", "b")>>
    /\ result_packages = <<<<Package("foo", 1, "git", "a"), 1>>>>
    /\ HasUpdate(Package("foo", 1, "git", "b"), Package("foo", 1, "git", "a"))

C8_NewPackageIsInstalled ==
    Calculated =>
        \A k \in 1 .. Len(result_packages) :
            LET rp == result_packages[k][1]
            IN  rp.name \notin Names(installed_packages)
                    => HasInstall(rp, FALSE) /\ ~HasUpdateTo(rp)

C8_Witness ==
    /\ Calculated
    /\ installed_packages = <<Package("pip", 1, "", "")>>
    /\ result_packages = <<<<Package("foo", 2, "", ""), 1>>>>
    /\ HasInstall(Package("foo", 2, "", ""), FALSE)

\* C9 as stated: with uninstalls enabled and synchronize off, every installed
\* package whose name is absent from the result set gets an Uninstall.
C9_UninstallAbsentFromResult ==
    (Calculated /\ with_uninstalls /\ ~synchronize) =>
        \A j \in 1 .. Len(installed_packages) :
            installed_packages[j].name \notin ResultNames
                => \E o \in Ops :
                      /\ o.kind = "uninstall"
                      /\ o.package.name = installed_packages[j].name

\* C9 amended: with uninstalls enabled and synchronize off, an installed
\* package whose name is absent from the result set gets an Uninstall
\* exactly when its name is that of a current package; the operation
\* carries the current package.
C9_UninstallCurrentAbsentFromResult ==
    (Calculated /\ with_uninstalls /\ ~synchronize) =>
        /\ \A j \in 1 .. Len(installed_packages) :
           \A c \in 1 .. Len(current_packages) :
              (/\ installed_packages[j].name \notin ResultNames
               /\ current_packages[c].name = installed_packages[j].name)
                  => HasUninstall(current_packages[c])
        /\ \A o \in Ops :
              o.kind = "uninstall" =>
                 /\ o.package \in Range(current_packages)
                 /\ o.package.name \in Names(installed_packages)
                 /\ o.package.name \notin ResultNames

C9_Witness ==
    /\ Calculated /\ with_uninstalls /\ ~synchronize
    /\ current_packages = <<Package("foo", 2, "", "")>>
    /\ installed_packages = <<Package("foo", 1, "", "")>>
    /\ result_packages = <<>>
    /\ operations = <<Uninstall(Package("foo", 2, "", ""))>>

\* the installed packages synchronize removes
SynchronizeRemoves(ip) ==
    /\ ip.name \notin Names(current_packages)
    /\ ~(root_package # NoPackage /\ ip.name = root_package.name)
    /\ ip.name \notin (BootstrapNames \ Names(current_packages))

\* C10 as stated: with synchronize on, every installed package whose name is
\* not in the current set gets an Uninstall, except the root package and
\* the bootstrap packages that are not declared.
C10_SynchronizeUninstalls ==
    (Calculated /\ synchronize) =>
        \A j \in 1 .. Len(installed_packages) :
            SynchronizeRemoves(installed_packages[j])
                => HasUninstall(installed_packages[j])

\* C10 amended: the same, with uninstalls enabled and synchronize on.
C10_SynchronizeUninstallsWhenEnabled ==
    (Calculated /\ with_uninstalls /\ synchronize) =>
        \A j \in 1 .. Len(installed_packages) :
            SynchronizeRemoves(installed_packages[j])
                => HasUninstall(installed_packages[j])

C10_Witness ==
    /\ Calculated /\ with_uninstalls /\ synchronize
    /\ root_package = Package("root", 1, "", "")
    /\ current_packages = <<>>
    /\ result_packages = <<>>
    /\ installed_packages = <<Package("root", 1, "", ""),
                              Package("pip", 1, "", ""),
                              Package("foo", 1, "", "")>>
    /\ operations = <<Uninstall(Package("foo", 1, "", ""))>>

\* C11 as stated: with synchronize on, no operation is on an installed
\* pip, setuptools or wheel package unless that package is in the current set.
C11_NoOperationOnBootstrap ==
    (Calculated /\ synchronize) =>
        \A o \in Ops :
            (/\ o.package.name \in BootstrapNames
             /\ o.package.name \in Names(installed_packages))
                => o.package.name \in Names(current_packages)

\* C11 amended: with synchronize on, no operation is on an installed pip,
\* setuptools or wheel package unless that package is in the current set or
\* in the result set; none of them is uninstalled unless it is in the
\* current set.
C11_BootstrapOnlyWhenDeclared ==
    (Calculated /\ synchronize) =>
        \A o \in Ops :
            (/\ o.package.name \in BootstrapNames
             /\ o.package.name \in Names(installed_packages))
                => /\ o.package.name \in Names(current_packages) \cup ResultNames
                   /\ o.kind = "uninstall"
                        => o.package.name \in Names(current_packages)

C11_Witness ==
    /\ Calculated /\ with_uninstalls /\ synchronize
    /\ root_package = Package("root", 1, "", "")
    /\ current_packages = <<>>
    /\ result_packages = <<>>
    /\ installed_packages = <<Package("foo", 1, "", ""),
                              Package("root", 1, "", ""),
                              Package("pip", 1, "", "")>>
    /\ operations = <<Uninstall(Package("foo", 1, "", ""))>>

\* C12 as stated: with synchronize on, no Uninstall targets the root
\* package, whatever the current, result and installed sets contain.
C12_RootNeverUninstalled ==
    (Calculated /\ synchronize /\ root_package # NoPackage) =>
        \A o \in Ops :
            o.kind = "uninstall" => o.package.name # root_package.name

\* C12 amended: with synchronize on, no Uninstall targets the root package
\* unless the root package's name is the name of a current package that is
\* installed and absent from the result set.
C12_RootUninstalledOnlyAsCurrent ==
    (Calculated /\ synchronize /\ root_package # NoPackage) =>
        \A o \in Ops :
            (o.kind = "uninstall" /\ o.package.name = root_package.name)
                => /\ root_package.name \in Names(current_packages)
                   /\ root_package.name \in Names(installed_packages)
                   /\ root_package.name \notin ResultNames

C12_Witness ==
    /\ Calculated /\ with_uninstalls /\ synchronize
    /\ root_package = Package("root", 1, "", "")
    /\ current_packages = <<>>
    /\ installed_packages = <<Package("root", 1, "", ""),
                              Package("foo", 2, "", "")>>
    /\ operations = <<Uninstall(Package("foo", 2, "", ""))>>

\* the sort key (-priority, name, version) of a is at most that of b
PriorityGreater(a, b) ==
    \/ a.priority.inf /\ ~b.priority.inf
    \/ ~a.priority.inf /\ ~b.priority.inf /\ a.priority.n > b.priority.n

KeyAtMost(a, b) ==
    \/ PriorityGreater(a, b)
    \/ /\ a.priority = b.priority
       /\ \/ NameRank(a.package.name) < NameRank(b.package.name)
          \/ /\ a.package.name = b.package.name
             /\ a.package.version <= b.package.version

\* C13: the returned list is ordered by descending priority, then package
\* name, then package version.
C13_OperationsSorted ==
    Calculated =>
        \A i, j \in 1 .. Len(operations) :
            i < j => KeyAtMost(operations[i], operations[j])

C13_Witness ==
    /\ Calculated
    /\ Len(operations) = 3
    /\ operations[1].kind = "uninstall"
    /\ operations[2].priority = Finite(1)
    /\ operations[3].priority = Finite(0)
    /\ result_packages[1][2] = 0
    /\ result_packages[2][2] = 1

\* C14: satisfies is true exactly when the two terms have the same complete
\* name and relation is SUBSET; with different complete names it returns
\* False and does not raise.
C14_SatisfiesIsNameAndSubset ==
    call = "satisfies" =>
        /\ ret = Bool(/\ SameCompleteName(t1, t2)
                      /\ relation(t1, t2) = Relation(SUBSET_))
        /\ ~SameCompleteName(t1, t2) => ret = Bool(FALSE)
        /\ SamePackage(t1, t2)
              => ret = Bool(TableRelation(t1, t2) = SUBSET_)

C14_Witness ==
    /\ call = "satisfies"
    /\ ~SameCompleteName(t1, t2)
    /\ ~t1.dependency.is_root /\ ~t2.dependency.is_root
    /\ ret = Bool(FALSE)

\* C15: relation is antisymmetric for SUBSET: when t1.relation(t2) and
\* t2.relation(t1) are both SUBSET, the terms have the same sign and allow
\* the same versions.
C15_SubsetAntisymmetric ==
    (/\ call = "relation"
     /\ ret = Relation(SUBSET_)
     /\ relation(t2, t1) = Relation(SUBSET_))
        => /\ t1.positive = t2.positive
           /\ Allowed(t1) = Allowed(t2)

C15_Witness ==
    /\ call = "relation"
    /\ ret = Relation(SUBSET_)
    /\ relation(t2, t1) = Relation(SUBSET_)
    /\ ~t1.positive
    /\ t1.dependency.constraint = {1}
    /\ t1.dependency.source_type # t2.dependency.source_type


(***************************************************************************)
(* C17: the caches of Term.relation and Term.intersect belong to one       *)
(* solve: every entry present was populated by the solve in progress (the  *)
(* caches are invalidated or recreated per solve and do not grow across    *)
(* solves).                                                                *)
(***************************************************************************)
C17_CachesBelongToOneSolve ==
    \A e \in term_cache : e.solve = solve

(***************************************************************************)
(* Claims about the version solver.                                        *)
(***************************************************************************)
\* C18: for finite root requirements and Provider data the loop of unit
\* propagation, conflict resolution and decision making terminates: the
\* solve eventually ends in SUCCESS (no undecided package remains) or in
\* FAILURE (an incompatibility without terms has been derived).
C18_SolverTerminates ==
    <>(\/ pc = "success" /\ unsatisfied_packages(trail) = {}
       \/ pc = "failure" /\ conflict.terms = {})

\* a solve that learned an incompatibility, backtracked and then failed
C18_Witness ==
    /\ pc = "failure"
    /\ \E i \in incompatibilities : i.cause = "conflict"

\* the assignments of the trail about one package
AssignmentsOf(name) ==
    {trail[i].term : i \in {j \in DOMAIN trail :
                               trail[j].term.dependency.name = name}}

\* the versions the positive assignments leave, less the excluded ones
SelectedVersions(name) ==
    {v \in SolverVersions :
        \A a \in AssignmentsOf(name) :
            IF a.positive THEN v \in a.dependency.constraint
            ELSE v \notin a.dependency.constraint}

ExcludedVersions(name) ==
    UNION {a.dependency.constraint :
              a \in {b \in AssignmentsOf(name) : ~b.positive}}

\* the partial solution implies the term
ImpliedBySolution(t) ==
    LET name == t.dependency.name
        selected == \E a \in AssignmentsOf(name) : a.positive
    IN  IF t.positive
            THEN selected /\ SelectedVersions(name) \subseteq t.dependency.constraint
            ELSE IF selected
                THEN SelectedVersions(name) \cap t.dependency.constraint = {}
                ELSE /\ AssignmentsOf(name) # {}
                     /\ t.dependency.constraint \subseteq ExcludedVersions(name)

\* every term of the incompatibility is implied by the partial solution
Falsified(incompatibility) ==
    \A t \in incompatibility.terms : ImpliedBySolution(t)

\* C19: an incompatibility of the solver's set has all its terms satisfied
\* by the partial solution only while unit propagation is about to find it
\* or conflict resolution is under way (or has failed), and then the only
\* steps the solver takes are steps of conflict resolution: the next step of
\* propagation turns to that very incompatibility, and until the backtrack
\* nothing is decided or derived.
C19_FalsifiedMeansConflict ==
    /\ []((\E i \in incompatibilities : Falsified(i))
            => pc \in {"propagate", "conflict", "failure"})
    /\ [][(\E i \in incompatibilities : Falsified(i))
            => /\ pc' \in {"conflict", "learned", "failure"}
               /\ Len(trail') <= Len(trail)
               /\ pc = "propagate"
                    => \A i \in incompatibilities :
                           Falsified(i) => conflict' = i]_vars

\* a dependency of the version just derived or decided is violated
C19_Witness ==
    /\ pc = "conflict"
    /\ conflict.cause = "dependency"
    /\ Falsified(conflict)
    /\ Len(trail) > 1

IsAppend ==
    /\ Len(trail') = Len(trail) + 1
    /\ SubSeq(trail', 1, Len(trail)) = trail

IsBacktrack ==
    /\ Len(trail') < Len(trail)
    /\ trail' = SubSeq(trail, 1, Len(trail'))

LevelsNeverDecrease ==
    \A i, j \in DOMAIN trail :
        i <= j => trail[i].decision_level <= trail[j].decision_level

\* C20: the trail changes only by appending one assignment or by
\* backtracking, which leaves a prefix of the trail before it; the decision
\* levels of the assignments along the trail never decrease.
C20_TrailAppendOrPrefix ==
    [][/\ trail' = trail \/ IsAppend \/ IsBacktrack
       /\ LevelsNeverDecrease']_vars

\* a backtrack has undone a decision and left a prefix that is not empty
C20_Witness ==
    /\ pc = "learned"
    /\ trail # <<>>
    /\ \E i \in incompatibilities : i.cause = "dependency"

\* the versions the solve has decided for a package
DecidedVersions(name) ==
    UNION {trail[i].term.dependency.constraint :
              i \in {j \in decisions(trail) :
                        trail[j].term.dependency.name = name}}

\* the package has exactly one decided version, it is one the Provider
\* offers, and the requirement allows it
MetByDecision(requirement_) ==
    \E v \in provider.versions[requirement_.name] :
        /\ DecidedVersions(requirement_.name) = {v}
        /\ v \in requirement_.constraint

\* C21: whenever a solve ends in SUCCESS, also after conflict-driven
\* backtracks, every package the assignment is about has one decided
\* version, every root requirement is met by the decided version of its
\* package, and so is every requirement of every decided version.
C21_SuccessIsValidAssignment ==
    pc = "success" =>
        /\ \A p \in SolverPackages :
               AssignmentsOf(p) # {} /\ (\E a \in AssignmentsOf(p) : a.positive)
                   => Cardinality(DecidedVersions(p)) = 1
        /\ \A d \in provider.root : MetByDecision(d)
        /\ \A p \in SolverPackages : \A v \in DecidedVersions(p) :
               \A d \in provider.requires[<<p, v>>] : MetByDecision(d)

\* a solve that backtracked out of a conflict and then succeeded, with a
\* requirement of a decided version in force
C21_Witness ==
    /\ pc = "success"
    /\ \E i \in incompatibilities : i.cause = "conflict"
    /\ \E p \in SolverPackages : \E v \in DecidedVersions(p) :
           provider.requires[<<p, v>>] # {}

(***************************************************************************)
(* Further claims about Transaction.calculate_operations.                  *)
(***************************************************************************)
\* C22: no operation returned is an Uninstall of a package whose name is in
\* the result set, whatever with_uninstalls, synchronize, the current and
\* the installed packages are.
C22_NoUninstallOfResultPackage ==
    Calculated =>
        \A o \in Ops : o.kind = "uninstall" => o.package.name \notin ResultNames

\* C24: every Install, skipped Install and Update emitted for a result
\* package carries the priority the caller supplied with that package.
C24_OperationsCarryPriority ==
    Calculated =>
        \A o \in Ops :
            o.kind # "uninstall"
                => \E k \in 1 .. Len(result_packages) :
                       /\ result_packages[k][1] = o.package
                       /\ o.priority = Finite(result_packages[k][2])

\* the positions of the returned list that hold an operation for the package
OperationsFor(package) ==
    {n \in 1 .. Len(operations) :
        /\ operations[n].kind # "uninstall"
        /\ operations[n].package = package}

EntriesOf(package) ==
    {k \in 1 .. Len(result_packages) : result_packages[k][1] = package}

InstalledMatches(name) ==
    {j \in 1 .. Len(installed_packages) : installed_packages[j].name = name}

\* C26: for each entry of the result packages exactly one operation among
\* Install, skipped Install and Update is emitted, also when several
\* installed packages share the entry's name.
C26_OneOperationPerResultEntry ==
    Calculated =>
        /\ \A k \in 1 .. Len(result_packages) :
               Cardinality(OperationsFor(result_packages[k][1]))
                   = Cardinality(EntriesOf(result_packages[k][1]))
        /\ \A n \in 1 .. Len(operations) :
               operations[n].kind # "uninstall"
                   => EntriesOf(operations[n].package) # {}

C26_Witness ==
    /\ Calculated
    /\ \E k \in 1 .. Len(result_packages) :
           Cardinality(InstalledMatches(result_packages[k][1].name)) > 1

\* C27: with with_uninstalls false no Uninstall operation is returned, even
\* when synchronize is true.
C27_NoUninstallsWhenDisabled ==
    (Calculated /\ ~with_uninstalls) =>
        \A o \in Ops : o.kind # "uninstall"

\* synchronize is on and an installed package is neither declared, nor the
\* root package, nor bootstrap tooling
C27_Witness ==
    /\ Calculated
    /\ ~with_uninstalls
    /\ synchronize
    /\ \E j \in 1 .. Len(installed_packages) :
           /\ installed_packages[j].name
                  \notin Names(current_packages) \cup BootstrapNames
           /\ root_package = NoPackage

(***************************************************************************)
(* Further claims about Term.                                              *)
(***************************************************************************)
\* C23: for two terms with the same complete name, relation returns
\* DISJOINT exactly when intersect returns None, also for empty constraints
\* and for dependencies of one name that are not the same package.
C23_DisjointIffNoIntersection ==
    (call = "relation" /\ SameCompleteName(t1, t2))
        => (ret = Relation(DISJOINT) <=> intersect(t1, t2) = None)

MaxLinks == 2

\* Env.supported_tags, the most specific tag first
supported_tags == <<"cp39", "py3">>
\* the tag sets of the wheel file names
WheelTags == {{"cp39"}, {"py3"}, {"cp39", "py3"}, {"cp27"}}
\* Link.hash of a link whose URL has no hash fragment
NoHash == ""
HashNames == {"sha256", "md5"}
LinkHashes == {"aa"}
\* the build tag of a wheel file name (NoBuild: none)
NoBuild == "None"
BuildTags == {NoBuild, "1"}

\* Link: the extension, the hash of the URL fragment, and for a wheel what
\* its file name says
Link(ext, hash_name, hash, tags, build_tag) ==
    [ext |-> ext, hash_name |-> hash_name, hash |-> hash, tags |-> tags,
     build_tag |-> build_tag]

LinkUniverse ==
    LET hashed == {<<n, h>> : n \in HashNames, h \in LinkHashes}
        fragments == hashed \cup {<<"", NoHash>>}
    IN {Link(".whl", f[1], f[2], tags, b) :
            f \in fragments, tags \in WheelTags, b \in BuildTags}
       \cup {Link(ext, f[1], f[2], {}, NoBuild) :
                ext \in {".tar.gz", ".egg"}, f \in fragments}

\* f"{link.hash_name}:{link.hash}"
format_hash(hash_name, hash) == <<hash_name, ":", hash>>

\* the hashes of package.files
FileHashes == {format_hash(n, h) : n \in {"sha256"}, h \in {"aa", "bb"}}

ChooserPackage(version, files) == [version |-> version, files |-> files]

RuntimeError(message) == [tag |-> "RuntimeError", message |-> message]

is_wheel(link) == link.ext = ".whl"

index(tags, t) == CHOOSE i \in 1 .. Len(tags) :
                     tags[i] = t /\ \A j \in 1 .. (i - 1) : tags[j] # t

Min(S) == CHOOSE x \in S : \A y \in S : x <= y

get_minimum_supported_index(wheel, tags) ==
    LET indexes == {index(tags, t) : t \in wheel.tags \cap Range(tags)}
    IN Min(indexes)

is_supported_by_environment(wheel) ==
    Range(supported_tags) \cap wheel.tags # {}

_is_link_hash_allowed_for_package(link, package_) ==
    IF link.hash = NoHash
    THEN TRUE
    ELSE format_hash(link.hash_name, link.hash) \in package_.files

\* int(build_tag_groups[0]) of the build tags of the model
build_number(build_tag) == IF build_tag = "1" THEN 1 ELSE 0

\* the tuple _sort_key returns; the build tag () sorts before every
\* (number, rest) and is written 0, (number, "") is written number + 1
_sort_key(package_, link) ==
    LET pri == IF is_wheel(link)
               THEN 0 - get_minimum_supported_index(link, supported_tags)
               ELSE 0 - Len(supported_tags)
        build_tag == IF is_wheel(link) /\ link.build_tag # NoBuild
                     THEN build_number(link.build_tag) + 1
                     ELSE 0
        has_allowed_hash ==
            IF _is_link_hash_allowed_for_package(link, package_) THEN 1 ELSE 0
    IN <<has_allowed_hash, 0, 0, package_.version, build_tag, pri>>

\* Python's order of two tuples of integers of one length
tuple_less(a, b) ==
    \E k \in 1 .. Len(a) :
        /\ a[k] < b[k]
        /\ \A m \in 1 .. (k - 1) : a[m] = b[m]

\* max(links, key=...): the first link of the greatest key
max_by_sort_key(package_, candidates_) ==
    LET key(i) == _sort_key(package_, candidates_[i])
        first == CHOOSE i \in 1 .. Len(candidates_) :
                    /\ \A j \in 1 .. Len(candidates_) :
                          ~tuple_less(key(i), key(j))
                    /\ \A j \in 1 .. (i - 1) : tuple_less(key(j), key(i))
    IN candidates_[first]

\* _get_links that checks no hash
_get_links_unchecked(package_, found) ==
    [raised |-> FALSE, links |-> found]

\* Chooser._get_links on the links the repository found
_get_links(package_, found) ==
    LET hashes == package_.files
        selected_links ==
            SelectSeq(found,
                LAMBDA link :
                    \/ link.hash = NoHash
                    \/ format_hash(link.hash_name, link.hash) \in hashes)
    IN IF hashes = {}
       THEN [raised |-> FALSE, links |-> found]
       ELSE IF found # <<>> /\ selected_links = <<>>
       THEN [raised |-> TRUE, links |-> <<>>]
       ELSE [raised |-> FALSE, links |-> selected_links]

ExcludedExts == {".egg", ".exe", ".msi", ".rpm", ".srpm"}

\* Chooser.choose_for: the link returned or the error raised
choose_for(package_, found) ==
    LET got == _get_links(package_, found)
        kept == SelectSeq(got.links,
                    LAMBDA link :
                        /\ ~(is_wheel(link)
                             /\ ~is_supported_by_environment(link))
                        /\ link.ext \notin ExcludedExts)
    IN IF got.raised
       THEN RuntimeError("digest not in poetry.lock metadata")
       ELSE IF kept = <<>>
       THEN RuntimeError("Unable to find installation candidates")
       ELSE max_by_sort_key(package_, kept)

(***************************************************************************)
(* ChooserSpec: a package and the links of its repository are drawn, then  *)
(* choose_for is called once.                                              *)
(***************************************************************************)
ChooserInit ==
    /\ pc = "ready"
    /\ call = "none"
    /\ choose_for_package \in
          {ChooserPackage(v, f) : v \in Versions, f \in SUBSET FileHashes}
    /\ \E n \in 0 .. MaxLinks : links \in [1 .. n -> LinkUniverse]
    /\ chosen = None
    /\ TermIdle
    /\ TxIdle
    /\ SolverIdle
    /\ CacheIdle
    /\ ConfigIdle
    /\ AddIdle

ChooseFor ==
    /\ pc = "ready"
    /\ call' = "choose_for"
    /\ chosen' = choose_for(choose_for_package, links)
    /\ pc' = "done"
    /\ UNCHANGED <<choose_for_package, links>>
    /\ UNCHANGED termVars
    /\ UNCHANGED txVars
    /\ UNCHANGED solverVars
    /\ UNCHANGED cacheVars
    /\ UNCHANGED configVars
    /\ UNCHANGED addVars

ChooserNext == ChooseFor

ChooserSpec == ChooserInit /\ [][ChooserNext]_vars

(***************************************************************************)
(* C28: hashes of the links choose_for considers.                          *)
(***************************************************************************)
ChooseForCalled == pc = "done" /\ call = "choose_for"

LinkReturned == chosen # None /\ chosen \in Range(links)

IsRuntimeError(x) == "tag" \in DOMAIN x /\ x.tag = "RuntimeError"

RejectedByHash(link) ==
    /\ link.hash # NoHash
    /\ format_hash(link.hash_name, link.hash) \notin choose_for_package.files

Installable(link) ==
    /\ is_wheel(link) => is_supported_by_environment(link)
    /\ link.ext \notin ExcludedExts

\* C28: for a package with recorded file hashes choose_for never returns a
\* link carrying a hash absent from the package's hashes; a link without a
\* hash stays a candidate, so that an installable one makes choose_for return
\* a link; and when the repository returned links and each of them was
\* rejected by its hash, a RuntimeError is raised and no link is returned.
C28_ChosenLinkHashIsRecorded ==
    (ChooseForCalled /\ choose_for_package.files # {}) =>
        /\ LinkReturned => ~RejectedByHash(chosen)
        /\ (\E i \in 1 .. Len(links) :
               links[i].hash = NoHash /\ Installable(links[i]))
              => LinkReturned
        /\ (links # <<>> /\ \A i \in 1 .. Len(links) : RejectedByHash(links[i]))
              => IsRuntimeError(chosen)

\* the package records hashes, a link was rejected by its hash and the link
\* returned carries a recorded hash
C28_Witness ==
    /\ ChooseForCalled
    /\ choose_for_package.files # {}
    /\ \E i \in 1 .. Len(links) : RejectedByHash(links[i])
    /\ LinkReturned
    /\ chosen.hash # NoHash

(***************************************************************************)
(* FileConfigSource (poetry/config/file_config_source.py): properties of   *)
(* a TOML configuration file.                                              *)
(***************************************************************************)
ConfigKeys == {"a", "b"}
ConfigValues == {1, 2}
\* the dotted keys given to add_property and remove_property
PropertyKeys == {"a", "b", "a.b"}

\* key.split(".")
split(key) ==
    CASE key = "a" -> <<"a">>
      [] key = "b" -> <<"b">>
      [] key = "a.b" -> <<"a", "b">>

\* an exception raised, by the name of its class
Exception(name) == [tag |-> name]

\* tomlkit items of a document: a value, or a table of values
Scalar(value) == [table |-> FALSE, value |-> value, items |-> <<>>]
Table(items) == [table |-> TRUE, value |-> 0, items |-> items]

\* tomlkit.document()
document == <<>>

\* container[key] = item and del container[key]
setitem(container, key, item) ==
    [k \in DOMAIN container \cup {key} |->
        IF k = key THEN item ELSE container[k]]
delitem(container, key) ==
    [k \in DOMAIN container \ {key} |-> container[k]]

Documents ==
    LET tables == UNION {[keys -> {1}] : keys \in SUBSET ConfigKeys}
        items == {Scalar(1)} \cup {Table(t) : t \in tables}
    IN UNION {[keys -> items] : keys \in SUBSET ConfigKeys}

\* the file on disk: absent, holding a document, or torn by a write that
\* failed after the file was truncated
TOMLFile(exists, torn, content) ==
    [exists |-> exists, torn |-> torn, content |-> content]

\* how a call of TOMLFile.write or TOMLFile.touch ends: it succeeds, it
\* raises before the file is opened, or it raises after opening it for
\* writing
Outcomes == {"done", "refused", "torn"}

\* TOMLFile.write(data)
write(file_, data, outcome) ==
    CASE outcome = "done" ->
            [raised |-> FALSE, file |-> TOMLFile(TRUE, FALSE, data)]
      [] outcome = "refused" -> [raised |-> TRUE, file |-> file_]
      [] outcome = "torn" ->
            [raised |-> TRUE, file |-> TOMLFile(TRUE, TRUE, document)]

\* TOMLFile.touch(mode=0o600) of a file that does not exist
touch(file_, outcome) ==
    IF outcome = "done"
    THEN [raised |-> FALSE, file |-> TOMLFile(TRUE, FALSE, document)]
    ELSE [raised |-> TRUE, file |-> file_]

\* the body of `with self.secure() as config` in add_property: the config
\* it leaves and what it raised
add_property_body(config, key, value) ==
    LET keys == split(key)
        tabled == IF keys[1] \notin DOMAIN config
                  THEN setitem(config, keys[1], Table(<<>>))
                  ELSE config
    IN IF Len(keys) = 1
       THEN [raised |-> None,
             config |-> setitem(config, keys[1], Scalar(value))]
       ELSE IF ~tabled[keys[1]].table
       THEN [raised |-> Exception("TypeError"), config |-> tabled]
       ELSE [raised |-> None,
             config |-> setitem(tabled, keys[1],
                            Table(setitem(tabled[keys[1]].items, keys[2],
                                          value)))]

\* the body of `with self.secure() as config` in remove_property
remove_property_body(config, key) ==
    LET keys == split(key)
    IN IF keys[1] \notin DOMAIN config
       THEN [raised |-> None, config |-> config]
       ELSE IF Len(keys) = 1
       THEN [raised |-> None, config |-> delitem(config, keys[1])]
       ELSE IF ~config[keys[1]].table
       THEN [raised |-> Exception("TypeError"), config |-> config]
       ELSE IF keys[2] \notin DOMAIN config[keys[1]].items
       THEN [raised |-> None, config |-> config]
       ELSE [raised |-> None,
             config |-> setitem(config, keys[1],
                            Table(delitem(config[keys[1]].items, keys[2])))]

\* FileConfigSource.secure around a body: the file it leaves and what is
\* raised, for the outcomes of the touch, the write and the write back
secure(file_, body, touching, writing, writing_back) ==
    LET initial_config == IF file_.exists THEN file_.content ELSE document
        new_file == ~file_.exists
        touched == IF new_file
                   THEN touch(file_, touching)
                   ELSE [raised |-> FALSE, file |-> file_]
        written == IF touched.raised
                   THEN touched
                   ELSE write(touched.file, body.config, writing)
    IN IF body.raised # None
       THEN [file |-> file_, raised |-> body.raised]
       ELSE IF ~written.raised
       THEN [file |-> written.file, raised |-> None]
       ELSE [file |-> write(written.file, initial_config, writing_back).file,
             raised |-> Exception("OSError")]

(***************************************************************************)
(* ConfigSpec: a configuration file is drawn, then one property is added   *)
(* or removed.                                                             *)
(***************************************************************************)
ConfigInit ==
    /\ pc = "ready"
    /\ call = "none"
    /\ file \in {TOMLFile(FALSE, FALSE, document)}
                   \cup {TOMLFile(TRUE, FALSE, d) : d \in Documents}
    /\ raised = None
    /\ TermIdle
    /\ TxIdle
    /\ SolverIdle
    /\ CacheIdle
    /\ ChooserIdle
    /\ AddIdle

ConfigFrame ==
    /\ pc' = "done"
    /\ UNCHANGED termVars
    /\ UNCHANGED txVars
    /\ UNCHANGED solverVars
    /\ UNCHANGED cacheVars
    /\ UNCHANGED chooserVars
    /\ UNCHANGED addVars

AddProperty ==
    /\ pc = "ready"
    /\ call' = "add_property"
    /\ \E key \in PropertyKeys, value \in ConfigValues,
          touching \in Outcomes \ {"torn"}, writing \in Outcomes,
          writing_back \in Outcomes :
          \E config \in {IF file.exists THEN file.content ELSE document} :
          \E left \in {secure(file, add_property_body(config, key, value),
                              touching, writing, writing_back)} :
             /\ file' = left.file
             /\ raised' = left.raised
    /\ ConfigFrame

RemoveProperty ==
    /\ pc = "ready"
    /\ call' = "remove_property"
    /\ \E key \in PropertyKeys,
          touching \in Outcomes \ {"torn"}, writing \in Outcomes,
          writing_back \in Outcomes :
          \E config \in {IF file.exists THEN file.content ELSE document} :
          \E left \in {secure(file, remove_property_body(config, key),
                              touching, writing, writing_back)} :
             /\ file' = left.file
             /\ raised' = left.raised
    /\ ConfigFrame

ConfigNext == AddProperty \/ RemoveProperty

ConfigSpec == ConfigInit /\ [][ConfigNext]_vars

(***************************************************************************)
(* C29: a failing add_property / remove_property and the stored            *)
(* configuration.                                                          *)
(***************************************************************************)
\* what a later read of the file finds: no file reads as the empty document
\* (file_config_source.py:63-68), a torn file is no document at all
StoredConfiguration(file_) ==
    IF file_.exists
    THEN [torn |-> file_.torn, content |-> file_.content]
    ELSE [torn |-> FALSE, content |-> document]

\* C29: whenever add_property or remove_property fails (the body raises, or
\* writing the modified configuration raises), the stored configuration
\* after the call is the one stored before the call.
C29_FailureLeavesConfigurationAsBefore ==
    [][(call' \in {"add_property", "remove_property"} /\ raised' # None)
          => StoredConfiguration(file') = StoredConfiguration(file)]_vars

(***************************************************************************)
(* AddCommand (poetry/console/commands/add.py): `poetry add`.              *)
(***************************************************************************)
\* the names given on the command line: 1 <= len(packages) <= MaxNames
MaxNames == 2

PackageNames == {"foo", "Foo", "bar"}

\* str.lower()
lower(name) == IF name = "Foo" THEN "foo" ELSE name

\* one name of the command line and the constraint _determine_requirements
\* makes of it: a version, a version parse_constraint rejects, or a git
\* reference
Requirement(name, kind) == [name |-> name, kind |-> kind]
Requirements ==
    {Requirement(n, k) : n \in PackageNames, k \in {"version", "invalid", "git"}}

AddGroups == {"default", "dev"}

\* the options handle reads
AddOptions ==
    [group : AddGroups, extras : BOOLEAN, editable : BOOLEAN,
     dry_run : BOOLEAN]

\* content["tool"]["poetry"] by group: the dependencies sections present
PyprojectContents ==
    LET versions == {[kind |-> "version", develop |-> FALSE]}
        sections == UNION {[names -> versions] : names \in SUBSET {"foo"}}
    IN UNION {[groups -> sections] : groups \in {{"default"}, AddGroups}}

\* handle returning a status
Returned(value) == [tag |-> "return", value |-> value]

\* AddCommand.get_existing_packages_from_input
get_existing_packages_from_input(packages, section) ==
    {packages[i].name : i \in
        {i \in 1 .. Len(packages) :
            \E key \in DOMAIN section :
                lower(key) = lower(packages[i].name)}}

\* the constraint written into the section for a requirement
constraint_of(requirement_, options) ==
    [kind |-> requirement_.kind, develop |-> options.editable]

\* why the loop over the requirements stops at one of them, or None
rejection(requirement_, options) ==
    IF requirement_.kind = "invalid"
    THEN Exception("ParseConstraintError")
    ELSE IF options.editable /\ requirement_.kind \notin {"git", "path"}
    THEN Returned(1)
    ELSE None

\* the section after `section[_constraint["name"]] = constraint` for each
\* requirement
RECURSIVE add_to_section(_, _, _)
add_to_section(section, requirements, options) ==
    IF requirements = <<>>
    THEN section
    ELSE add_to_section(
             setitem(section, Head(requirements).name,
                     constraint_of(Head(requirements), options)),
             Tail(requirements), options)

\* handle that writes whatever the dry-run option says
handle_ignoring_dry_run(file_, requires, options, run_status, writing) ==
    LET read == file_.content
        content == IF options.group \in DOMAIN read
                   THEN read
                   ELSE setitem(read, options.group, <<>>)
        section == content[options.group]
        existing_packages == get_existing_packages_from_input(requires, section)
        packages ==
            SelectSeq(requires, LAMBDA r : r.name \notin existing_packages)
        rejected == {i \in 1 .. Len(packages) :
                        rejection(packages[i], options) # None}
        modified == setitem(content, options.group,
                            add_to_section(section, packages, options))
        written == write(file_, modified, writing)
    IN IF options.extras /\ Len(requires) > 1
       THEN [file |-> file_, status |-> Exception("ValueError")]
       ELSE IF packages = <<>>
       THEN [file |-> file_, status |-> Returned(0)]
       ELSE IF rejected # {}
       THEN [file |-> file_,
             status |-> rejection(packages[Min(rejected)], options)]
       ELSE IF run_status = 0
       THEN [file |-> written.file,
             status |-> IF written.raised
                        THEN Exception("OSError")
                        ELSE Returned(run_status)]
       ELSE [file |-> file_, status |-> Returned(run_status)]

\* AddCommand.handle: the pyproject.toml file it leaves and what it
\* returns or raises, for the status of the installer run and the outcome
\* of the write
handle(file_, requires, options, run_status, writing) ==
    LET read == file_.content
        content == IF options.group \in DOMAIN read
                   THEN read
                   ELSE setitem(read, options.group, <<>>)
        section == content[options.group]
        existing_packages == get_existing_packages_from_input(requires, section)
        packages ==
            SelectSeq(requires, LAMBDA r : r.name \notin existing_packages)
        rejected == {i \in 1 .. Len(packages) :
                        rejection(packages[i], options) # None}
        modified == setitem(content, options.group,
                            add_to_section(section, packages, options))
        written == write(file_, modified, writing)
    IN IF options.extras /\ Len(requires) > 1
       THEN [file |-> file_, status |-> Exception("ValueError")]
       ELSE IF packages = <<>>
       THEN [file |-> file_, status |-> Returned(0)]
       ELSE IF rejected # {}
       THEN [file |-> file_,
             status |-> rejection(packages[Min(rejected)], options)]
       ELSE IF run_status = 0 /\ ~options.dry_run
       THEN [file |-> written.file,
             status |-> IF written.raised
                        THEN Exception("OSError")
                        ELSE Returned(run_status)]
       ELSE [file |-> file_, status |-> Returned(run_status)]

(***************************************************************************)
(* AddSpec: a pyproject.toml, a command line and the status of the         *)
(* installer run are drawn, then handle is called once.                    *)
(***************************************************************************)
AddInit ==
    /\ pc = "ready"
    /\ call = "none"
    /\ pyproject \in {TOMLFile(TRUE, FALSE, c) : c \in PyprojectContents}
    /\ \E n \in 1 .. MaxNames : argument \in [1 .. n -> Requirements]
    /\ option \in AddOptions
    /\ installer \in {0, 1}
    /\ status = None
    /\ TermIdle
    /\ TxIdle
    /\ SolverIdle
    /\ CacheIdle
    /\ ChooserIdle
    /\ ConfigIdle

Handle ==
    /\ pc = "ready"
    /\ call' = "handle"
    /\ \E writing \in Outcomes :
          \E left \in {handle(pyproject, argument, option, installer,
                              writing)} :
             /\ pyproject' = left.file
             /\ status' = left.status
    /\ pc' = "done"
    /\ UNCHANGED <<argument, option, installer>>
    /\ UNCHANGED termVars
    /\ UNCHANGED txVars
    /\ UNCHANGED solverVars
    /\ UNCHANGED cacheVars
    /\ UNCHANGED chooserVars
    /\ UNCHANGED configVars

AddNext == Handle

AddSpec == AddInit /\ [][AddNext]_vars

(***************************************************************************)
(* C30: when handle writes pyproject.toml.                                 *)
(***************************************************************************)
HandleCalled == pc = "done" /\ call = "handle"

\* every name of the command line is already a key of the group's section
NothingToAdd ==
    \A i \in 1 .. Len(argument) :
        /\ option.group \in DOMAIN pyproject.content
        /\ \E key \in DOMAIN pyproject.content[option.group] :
              lower(key) = lower(argument[i].name)

\* C30: a call of handle changes the pyproject.toml file only when the
\* installer run returned status 0 with dry-run off; when there is nothing
\* to add, when handle returns 1 (the editable-not-supported error), when
\* the installer status is not 0 and when dry-run is on, the file after the
\* call is the file before it.
C30_PyprojectWrittenOnlyAfterSuccess ==
    [][call' = "handle" =>
          /\ pyproject' # pyproject =>
                /\ installer = 0
                /\ ~option.dry_run
                /\ status' \in {Returned(0), Exception("OSError")}
          /\ (\/ NothingToAdd
              \/ status' = Returned(1)
              \/ installer # 0
              \/ option.dry_run) => pyproject' = pyproject]_vars

\* handle returned 0 with dry-run off and the file holds a dependency added
\* in editable mode
C30_Witness ==
    /\ HandleCalled
    /\ status = Returned(0)
    /\ installer = 0
    /\ ~option.dry_run
    /\ ~pyproject.torn
    /\ \E name \in DOMAIN pyproject.content[option.group] :
          pyproject.content[option.group][name] =
              [kind |-> "git", develop |-> TRUE]

=============================================================================
